---- MODULE Spec2Model ----
(***************************************************************************)
(* Model of sourceror-driver (src/src/index.ts): compile() drives the      *)
(* js-slang parser, the Sourceror compiler and WebAssembly.compile; run()  *)
(* instantiates the module, calls its entry point and decodes the result   *)
(* out of linear memory with read_js_result.                               *)
(*                                                                         *)
(* Each request p owns one js-slang Context (its diagnostic sink is        *)
(* errors[p]) and performs compile and then, on a fulfilled compile, run.  *)
(* Every promise reaction (a .then/.catch handler) is one atomic step;     *)
(* requests interleave only between such steps, as on the JS event loop.   *)
(***************************************************************************)
EXTENDS Integers, Sequences, FiniteSets, TLC

VARIABLES
    pc,            \* pc[p]: where request p stands in compile / run
    errors,        \* errors[p]: context.errors, the diagnostic sink
    has_errors,    \* has_errors[p]: the local flag of compile (line 30)
    wasm_context,  \* wasm_context[p]: the handle create_context gave (line 31)
    chain,         \* chain[p]: settlement of the promise the next handler reacts to
    result,        \* result[p]: settlement of the promise compile returned
    live,          \* handles created by Sourceror and not yet destroyed
    nextHandle,    \* the next handle Sourceror.create_context hands out
    active,        \* the request whose synchronous code holds the JS thread, or None
    calls,         \* calls[p]: history of compile's external calls and their completions
    cbLog,         \* cbLog[p]: history of the callback invocations (their arguments)
    parsed,        \* parsed[p]: history, the sink as slang_parse left it
    budget,        \* budget[p]: callback invocations the compiler may still make
    outcome,       \* outcome[p]: settlement of the promise run returned
    thrown,        \* thrown[p]: the value unwinding out of the try block of run
    linear_memory, \* linear_memory[p]: the memory the instance exports
    steps,         \* steps[p]: entry-point statements executed so far
    faults,        \* faults[p]: history, the calls of the fault import (site and arguments)
    decoded,       \* decoded[p]: history, calls of read_js_result
    ran,           \* ran[p]: history, the sink when run was called
    returned,      \* returned[p]: completion of a direct call of read_js_result
    previous,      \* previous[p]: history, completion of the direct call before it
    lookup         \* lookup[p]: a direct call of the fault-code lookup, code and result

compileVars == <<has_errors, wasm_context, result, live, nextHandle, calls,
                 cbLog, parsed, budget>>

runVars == <<outcome, thrown, linear_memory, steps, faults, decoded, ran>>

vars == <<pc, errors, chain, active, has_errors, wasm_context, result, live,
          nextHandle, calls, cbLog, parsed, budget, outcome, thrown,
          linear_memory, steps, faults, decoded, ran, returned, previous, lookup>>

-----------------------------------------------------------------------------
(* Bounds                                                                  *)

MaxCallbacks == 2

MaxSteps == 2

MaxFaults == 2

MaxReads == 2

MaxCode == 40

\* Callback invocations of the first compilation when two compilations
\* interleave; the second one receives at most one.
PairCallbacks == 1

Procs == {"a", "b"}

None == "none"

SeverityCodes == {3, 4, 5}

Positions == {<<1, 0>>, <<2, 5>>}

-----------------------------------------------------------------------------
(* Values                                                                  *)

Val(kind, message) == [kind |-> kind, message |-> message]

CompileError(message) == Val("CompileError", message)

Pending == [state |-> "pending", value |-> Val("None", "")]

Fulfilled(v) == [state |-> "fulfilled", value |-> v]

Rejected(v) == [state |-> "rejected", value |-> v]

Diagnostic(type, severity, sl, sc, el, ec, explain, elaborate) ==
    [type |-> type, severity |-> severity,
     start |-> <<sl, sc>>, end |-> <<el, ec>>,
     explain |-> explain, elaborate |-> elaborate]

\* Variant of Push that puts the new entries in front (unshift).
PushFront(sink, entries) == entries \o sink

\* lines 33, 55, 165, 195: context.errors.push(...), the sink with the
\* entries added at its end
Push(sink, entries) == sink \o entries

ValidationElaborate == "Your browser's WebAssembly engine is unable to compile the WebAssembly binary produced by Sourceror.  This is probably a bug in Sourceror; please report it."

\* What the js-slang parser may leave in the sink: nothing, or one diagnostic.
ParserDiagnostics ==
    {<<>>} \cup
    {<<Diagnostic("Syntax", s, 1, 0, 1, 1, "parser", "")>> : s \in {"Warning", "Error"}}

-----------------------------------------------------------------------------
(* compile, lines 19-90                                                    *)

\* Variant of CallbackSeverity with the threshold one too low.
CallbackSeverityLow(severity_code) ==
    IF severity_code >= 3 THEN "Error" ELSE "Warning"

\* line 35: the severity the callback records for a severity code
CallbackSeverity(severity_code) ==
    IF severity_code >= 4 THEN "Error" ELSE "Warning"

\* Variant of FlagAfter that follows the last invocation only.
FlagTracksLast(flag, severity_code) == severity_code >= 4

\* line 32: the flag after a callback invocation
FlagAfter(flag, severity_code) ==
    IF severity_code >= 4 THEN TRUE ELSE flag

\* lines 33-49: the diagnostic the callback pushes
CallbackDiagnostic(severity_code, message, line, column) ==
    Diagnostic("Syntax", CallbackSeverity(severity_code),
               line, column, line, column + 1, message, "")

\* Variant of CallbackPushes that records nothing below Error severity.
CallbackPushesErrorsOnly(severity_code, message, line, column) ==
    IF severity_code >= 4
      THEN <<CallbackDiagnostic(severity_code, message, line, column)>>
      ELSE <<>>

\* lines 33-49: what one invocation of the callback appends to the sink
CallbackPushes(severity_code, message, line, column) ==
    <<CallbackDiagnostic(severity_code, message, line, column)>>

\* lines 55-71: the diagnostic pushed when WebAssembly.compile rejects with err
ValidationDiagnostic(err) ==
    Diagnostic("Syntax", "Error", 0, 0, 0, 0, err, ValidationElaborate)

\* Variant of ParseFailureSettlement that returns the error instead of
\* rejecting with it.
ParseFailureReturned ==
    Fulfilled(CompileError("js-slang cannot parse the program"))

\* lines 25-27: return Promise.reject(new CompileError(...))
ParseFailureSettlement ==
    Rejected(CompileError("js-slang cannot parse the program"))

\* lines 23-28: slang_parse yields no tree; compile returns a rejected promise
\* before any context exists.
ParseFailure(p) ==
    /\ pc[p] = "idle" /\ active = None
    /\ \E d \in ParserDiagnostics :
         /\ errors' = [errors EXCEPT ![p] = @ \o d]
         /\ parsed' = [parsed EXCEPT ![p] = errors[p] \o d]
    /\ calls' = [calls EXCEPT ![p] = Append(@, <<"parse:none", 0>>)]
    /\ result' = [result EXCEPT ![p] = ParseFailureSettlement]
    /\ pc' = [pc EXCEPT ![p] = "settled"]
    /\ UNCHANGED <<returned, previous, lookup, has_errors, wasm_context, chain, live, nextHandle, active,
                   cbLog, budget, runVars>>

\* lines 23-51: the parser yields a tree, the context is created and
\* Sourceror.compile is entered (its synchronous part now runs).
CompileBegin(p) ==
    /\ pc[p] = "idle" /\ active = None
    /\ \E d \in ParserDiagnostics :
         /\ errors' = [errors EXCEPT ![p] = @ \o d]
         /\ parsed' = [parsed EXCEPT ![p] = errors[p] \o d]
    /\ has_errors' = [has_errors EXCEPT ![p] = FALSE]
    /\ wasm_context' = [wasm_context EXCEPT ![p] = nextHandle]
    /\ live' = live \cup {nextHandle}
    /\ nextHandle' = nextHandle + 1
    /\ calls' = [calls EXCEPT ![p] =
                   @ \o << <<"parse:tree", 0>>,
                           <<"create_context", nextHandle>>,
                           <<"compile", nextHandle>> >>]
    /\ active' = p
    /\ pc' = [pc EXCEPT ![p] = "calling"]
    /\ UNCHANGED <<returned, previous, lookup, chain, result, cbLog, budget, runVars>>

\* Variant of FlagsAfter with one flag for all invocations (a module-level
\* variable).
FlagsAfterShared(flags, p, severity_code) ==
    [q \in Procs |-> FlagAfter(flags[q], severity_code)]

\* lines 30, 32: has_errors is a local of the invocation, captured by the
\* callback of the context that invocation created; the callback of p writes
\* the flag of p only.
FlagsAfter(flags, p, severity_code) ==
    [flags EXCEPT ![p] = FlagAfter(@, severity_code)]

\* lines 31-50: Sourceror invokes the diagnostic callback of p's context,
\* inside the synchronous part of Sourceror.compile or later while the
\* compile operation is still in progress.
DiagnosticCallback(p) ==
    /\ \/ pc[p] = "calling" /\ active = p
       \/ pc[p] = "compiling" /\ active = None
    /\ budget[p] > 0
    /\ \E severity_code \in SeverityCodes, pos \in Positions :
         /\ has_errors' = FlagsAfter(has_errors, p, severity_code)
         /\ errors' = [errors EXCEPT ![p] =
                         Push(@, CallbackPushes(severity_code, "msg", pos[1], pos[2]))]
         /\ cbLog' = [cbLog EXCEPT ![p] =
                        Append(@, <<severity_code, "msg", pos[1], pos[2]>>)]
    /\ budget' = [budget EXCEPT ![p] = @ - 1]
    /\ UNCHANGED <<returned, previous, lookup, pc, wasm_context, chain, result, live, nextHandle, active,
                   calls, parsed, runVars>>

\* line 51: Sourceror.compile raises synchronously; the exception leaves the
\* async function, whose promise is rejected with it.
SourcerorCompileThrows(p) ==
    /\ pc[p] = "calling" /\ active = p
    /\ result' = [result EXCEPT ![p] = Rejected(Val("Failure", "compiler threw"))]
    /\ calls' = [calls EXCEPT ![p] = Append(@, <<"compile:threw", wasm_context[p]>>)]
    /\ pc' = [pc EXCEPT ![p] = "settled"]
    /\ active' = None
    /\ UNCHANGED <<returned, previous, lookup, errors, has_errors, wasm_context, chain, live, nextHandle,
                   cbLog, parsed, budget, runVars>>

\* line 51: Sourceror.compile returns its promise; both handlers are attached
\* and compile returns.
SourcerorCompileReturns(p) ==
    /\ pc[p] = "calling" /\ active = p
    /\ pc' = [pc EXCEPT ![p] = "compiling"]
    /\ active' = None
    /\ UNCHANGED <<returned, previous, lookup, errors, has_errors, wasm_context, chain, result, live,
                   nextHandle, calls, cbLog, parsed, budget, runVars>>

\* line 51: the promise of Sourceror.compile settles, with bytes or a failure.
SourcerorCompileSettles(p) ==
    /\ pc[p] = "compiling" /\ active = None
    /\ \/ /\ chain' = [chain EXCEPT ![p] = Fulfilled(Val("Bytes", ""))]
          /\ calls' = [calls EXCEPT ![p] =
                         Append(@, <<"compile:bytes", wasm_context[p]>>)]
       \/ /\ chain' = [chain EXCEPT ![p] =
                         Rejected(Val("Failure", "compiler rejected"))]
          /\ calls' = [calls EXCEPT ![p] =
                         Append(@, <<"compile:rejected", wasm_context[p]>>)]
    /\ pc' = [pc EXCEPT ![p] = "compiled"]
    /\ UNCHANGED <<returned, previous, lookup, errors, has_errors, wasm_context, result, live, nextHandle,
                   active, cbLog, parsed, budget, runVars>>

\* Variant of ValidatesBytes that validates whatever the flag says.
ValidatesAlways(flag) == TRUE

\* line 53: the bytes go to WebAssembly.compile only if (!has_errors)
ValidatesBytes(flag) == ~flag

\* lines 52-82: the first reaction. A rejection of Sourceror.compile passes
\* through (this .then has no rejection handler).
OnBytes(p) ==
    /\ pc[p] = "compiled" /\ active = None
    /\ IF chain[p].state = "fulfilled"
         THEN IF ValidatesBytes(has_errors[p])
                THEN /\ calls' = [calls EXCEPT ![p] = Append(@, <<"validate", 0>>)]
                     /\ chain' = [chain EXCEPT ![p] = Pending]
                     /\ pc' = [pc EXCEPT ![p] = "validating"]
                ELSE /\ chain' = [chain EXCEPT ![p] =
                                    Rejected(CompileError("Syntax error"))]
                     /\ pc' = [pc EXCEPT ![p] = "finalizing"]
                     /\ UNCHANGED calls
         ELSE /\ pc' = [pc EXCEPT ![p] = "finalizing"]
              /\ UNCHANGED <<chain, calls>>
    /\ UNCHANGED <<returned, previous, lookup, errors, has_errors, wasm_context, result, live, nextHandle,
                   active, cbLog, parsed, budget, runVars>>

\* line 54: WebAssembly.compile settles, with a module or a failure message.
ValidationSettles(p) ==
    /\ pc[p] = "validating" /\ active = None
    /\ \/ /\ chain' = [chain EXCEPT ![p] = Fulfilled(Val("Module", ""))]
          /\ calls' = [calls EXCEPT ![p] = Append(@, <<"validate:module", 0>>)]
       \/ /\ chain' = [chain EXCEPT ![p] =
                         Rejected(Val("Failure", "CompileError: invalid binary"))]
          /\ calls' = [calls EXCEPT ![p] = Append(@, <<"validate:failed", 0>>)]
    /\ pc' = [pc EXCEPT ![p] = "validated"]
    /\ UNCHANGED <<returned, previous, lookup, errors, has_errors, wasm_context, result, live, nextHandle,
                   active, cbLog, parsed, budget, runVars>>

\* lines 54-75: the .catch reaction on WebAssembly.compile.
OnValidation(p) ==
    /\ pc[p] = "validated" /\ active = None
    /\ IF chain[p].state = "rejected"
         THEN /\ errors' = [errors EXCEPT ![p] =
                              Push(@, <<ValidationDiagnostic(chain[p].value.message)>>)]
              /\ chain' = [chain EXCEPT ![p] =
                             Rejected(CompileError("WebAssembly compilation error"))]
         ELSE UNCHANGED <<errors, chain>>
    /\ pc' = [pc EXCEPT ![p] = "finalizing"]
    /\ UNCHANGED <<returned, previous, lookup, has_errors, wasm_context, result, live, nextHandle, active,
                   calls, cbLog, parsed, budget, runVars>>

\* lines 83-89: what the second reaction settles compile's promise with.
\* The rejection handler returns e, so the promise is fulfilled with e.
FinalSettlement(c) ==
    IF c.state = "fulfilled" THEN Fulfilled(c.value) ELSE Fulfilled(c.value)

\* Variant of DestroyCalls whose rejection handler leaves the context alone.
DestroyOnSuccessOnly(c, handle) ==
    IF c.state = "fulfilled" THEN << <<"destroy_context", handle>> >> ELSE <<>>

\* lines 84, 87: both handlers of the second reaction destroy the context.
DestroyCalls(c, handle) == << <<"destroy_context", handle>> >>

\* lines 83-89: the second reaction.
Finalize(p) ==
    /\ pc[p] = "finalizing" /\ active = None
    /\ calls' = [calls EXCEPT ![p] = @ \o DestroyCalls(chain[p], wasm_context[p])]
    /\ live' = live \ {c[2] : c \in
                 {DestroyCalls(chain[p], wasm_context[p])[i] :
                    i \in 1..Len(DestroyCalls(chain[p], wasm_context[p]))}}
    /\ result' = [result EXCEPT ![p] = FinalSettlement(chain[p])]
    /\ pc' = [pc EXCEPT ![p] = "settled"]
    /\ UNCHANGED <<returned, previous, lookup, errors, has_errors, wasm_context, chain, nextHandle, active,
                   cbLog, parsed, budget, runVars>>

-----------------------------------------------------------------------------
(* Linear memory and read_js_result, lines 92-119                          *)
(*                                                                         *)
(* A memory is its byteLength and its bytes; bytes[a] is given for the     *)
(* addresses a that were written, every other byte of the buffer is 0.     *)
(* A 32-bit word is kept as the pair <<high half, low half>> of 16-bit     *)
(* halves so that the whole unsigned range 0 .. 2^32-1 is represented.     *)

PageSize == 2^16

\* line 94: (1 << 20) - 12
TagOffset == 2^20 - 12

\* line 95: (1 << 20) - 8
DataOffset == 2^20 - 8

ByteAt(m, a) == IF a \in DOMAIN m.bytes THEN m.bytes[a] ELSE 0

\* DataView.getUint32(offset, true): a RangeError unless the 4 bytes lie in
\* the buffer; little-endian, byte 0 is the least significant.
U32InBounds(m, offset) == offset + 4 <= m.size

\* Variant of GetUint32 that reads the word big-endian.
GetUint32BigEndian(m, offset) ==
    <<ByteAt(m, offset) * 256 + ByteAt(m, offset + 1),
      ByteAt(m, offset + 2) * 256 + ByteAt(m, offset + 3)>>

GetUint32(m, offset) ==
    <<ByteAt(m, offset + 3) * 256 + ByteAt(m, offset + 2),
      ByteAt(m, offset + 1) * 256 + ByteAt(m, offset)>>

\* DataView.getFloat64(offset, true): the double whose IEEE-754 bit pattern
\* is the 8 bytes, most significant byte (offset + 7) first in the tuple.
GetFloat64(m, offset) ==
    [i \in 1..8 |-> ByteAt(m, offset + 8 - i)]

IsZero(w) == w[1] = 0 /\ w[2] = 0

\* A word below 2^31 as an integer.
Small(w) == w[1] < 2^15

AsInt(w) == w[1] * 2^16 + w[2]

\* word + k <= limit, for 0 <= k and limit < 2^31, without leaving 32 bits
AtMost(w, k, limit) ==
    /\ Small(w)
    /\ limit - k >= 0
    /\ AsInt(w) <= limit - k

Pad5(r) ==
    (IF r < 10 THEN "0000" ELSE IF r < 100 THEN "000"
     ELSE IF r < 1000 THEN "00" ELSE IF r < 10000 THEN "0" ELSE "") \o ToString(r)

\* "" + tag: the decimal digits of an unsigned 32-bit word
Decimal(w) ==
    LET A == w[1] * 655
        D == (A % 1000) * 100 + w[1] * 36 + w[2]
        q == (A \div 1000) + (D \div 100000)
        r == D % 100000
    IN  IF q = 0 THEN ToString(r) ELSE ToString(q) \o Pad5(r)

\* The characters of the codes 48..57, 65..90 and 97..122.
Digits == <<"0", "1", "2", "3", "4", "5", "6", "7", "8", "9">>

Upper ==
    <<"A", "B", "C", "D", "E", "F", "G", "H", "I", "J", "K", "L", "M",
      "N", "O", "P", "Q", "R", "S", "T", "U", "V", "W", "X", "Y", "Z">>

Lower ==
    <<"a", "b", "c", "d", "e", "f", "g", "h", "i", "j", "k", "l", "m",
      "n", "o", "p", "q", "r", "s", "t", "u", "v", "w", "x", "y", "z">>

ReplacementChar == "{U+FFFD}"

\* TextDecoder (utf-8, not fatal) on one byte: an ASCII byte is its own
\* character (written {n} here when it is no letter, digit or space); a byte
\* from 128 on is taken where it can start no UTF-8 sequence (the memories
\* of the model use 255 only) and is replaced by U+FFFD.
CharOf(b) ==
    IF b >= 48 /\ b <= 57 THEN Digits[b - 47]
    ELSE IF b >= 65 /\ b <= 90 THEN Upper[b - 64]
    ELSE IF b >= 97 /\ b <= 122 THEN Lower[b - 96]
    ELSE IF b = 32 THEN " "
    ELSE IF b < 128 THEN "{" \o ToString(b) \o "}"
    ELSE ReplacementChar

RECURSIVE Utf8Decode(_, _, _)
Utf8Decode(m, from, len) ==
    IF len = 0 THEN ""
    ELSE CharOf(ByteAt(m, from)) \o Utf8Decode(m, from + 1, len - 1)

Returns(v) == [ok |-> TRUE, value |-> v]

Throws(e) == [ok |-> FALSE, value |-> Val("Failure", e)]

\* A JavaScript value read_js_result can return: its type and, for the type,
\* the text, the IEEE-754 bytes of the number, or the boolean.
JsValue(t, text, bits, b) == [t |-> t, text |-> text, bits |-> bits, b |-> b]

JsString(s) == JsValue("string", s, <<>>, FALSE)

JsUndefined == JsValue("undefined", "", <<>>, FALSE)

JsNumber(bits) == JsValue("number", "", bits, FALSE)

JsBoolean(b) == JsValue("boolean", "", <<>>, b)

\* lines 105-113: the string case
ReadString(m) ==
    IF ~U32InBounds(m, DataOffset)
      THEN Throws("RangeError: Offset is outside the bounds of the DataView")
    ELSE
    LET ptr == GetUint32(m, DataOffset) IN
    IF ~AtMost(ptr, 4, m.size)
      THEN Throws("RangeError: Offset is outside the bounds of the DataView")
      ELSE LET len == GetUint32(m, AsInt(ptr)) IN
           IF ~AtMost(len, AsInt(ptr) + 4, m.size)
             THEN Throws("RangeError: Invalid typed array length")
             ELSE Returns(JsString(Utf8Decode(m, AsInt(ptr) + 4, AsInt(len))))

\* Variant of MemoryAfterRead: the read consumes the result, clearing the tag.
MemoryAfterConsumingRead(m) ==
    [m EXCEPT !.bytes =
       [a \in (DOMAIN m.bytes) \cup (TagOffset .. (TagOffset + 3)) |->
          IF a >= TagOffset /\ a < TagOffset + 4 THEN 0 ELSE m.bytes[a]]]

\* lines 93-117: read_js_result only reads through the DataView and the
\* Uint8Array view; the memory after the call is the memory before it.
MemoryAfterRead(m) == m

\* Variant of InvalidTag that treats an unknown tag as an error.
InvalidTagThrows(tag) == Throws("Error: invalid tag")

\* lines 116-117: the default case
InvalidTag(tag) ==
    Returns(JsString("(struct or invalid type (" \o Decimal(tag) \o ") was returned)"))

\* lines 92-119
read_js_result(m) ==
    IF ~U32InBounds(m, TagOffset)
      THEN Throws("RangeError: Offset is outside the bounds of the DataView")
      ELSE LET tag == GetUint32(m, TagOffset) IN
           IF tag[1] # 0 \/ tag[2] > 5
             THEN InvalidTag(tag)
           ELSE IF tag[2] = 0 THEN Returns(JsString("(unassigned variable was returned)"))
           ELSE IF tag[2] = 1 THEN Returns(JsUndefined)
           ELSE IF tag[2] = 2
             THEN IF DataOffset + 8 <= m.size
                    THEN Returns(JsNumber(GetFloat64(m, DataOffset)))
                    ELSE Throws("RangeError: Offset is outside the bounds of the DataView")
           ELSE IF tag[2] = 3
             THEN IF U32InBounds(m, DataOffset)
                    THEN Returns(JsBoolean(~IsZero(GetUint32(m, DataOffset))))
                    ELSE Throws("RangeError: Offset is outside the bounds of the DataView")
           ELSE IF tag[2] = 4 THEN ReadString(m)
           ELSE Returns(JsString("(function was returned)"))

-----------------------------------------------------------------------------
(* Memories the compiled module can leave behind                           *)

\* The 4 bytes of n (0 <= n < 2^31) as the module stores them, least
\* significant first.
LittleEndian(n) ==
    <<n % 256, (n \div 256) % 256, (n \div 65536) % 256, n \div 16777216>>

EmptyMemory(size) == [size |-> size, bytes |-> [a \in {} |-> 0]]

\* m after the module stored the bytes bs at addr; a store that does not lie
\* in the buffer traps in the module and leaves the memory as it was.
Store(m, addr, bs) ==
    IF addr + Len(bs) > m.size THEN m
    ELSE [m EXCEPT !.bytes =
            [a \in (DOMAIN m.bytes) \cup (addr .. (addr + Len(bs) - 1)) |->
               IF a >= addr /\ a < addr + Len(bs) THEN bs[a - addr + 1]
               ELSE m.bytes[a]]]

\* A memory of `size` bytes holding the tag word, the 8 data bytes, and at
\* strAt a length word followed by the bytes of text.
MakeMemory(size, tagWord, data, strAt, lenWord, text) ==
    Store(Store(Store(EmptyMemory(size), strAt, lenWord \o text),
                DataOffset, data),
          TagOffset, tagWord)

AllOnes == <<255, 255, 255, 255>>

Hi == <<104, 105>>

\* The contents the entry point may have left when it returns: a number, a
\* string, an unsupported tag, a string whose pointer lies outside the
\* buffer, and a string whose length runs past the end of the buffer.
RunMemories ==
    { MakeMemory(2^20, LittleEndian(2), <<0, 0, 0, 0, 0, 0, 8, 64>>, 16,
                 LittleEndian(0), <<>>),
      MakeMemory(2^20, LittleEndian(4), LittleEndian(16) \o <<0, 0, 0, 0>>, 16,
                 LittleEndian(2), Hi),
      MakeMemory(2^20, LittleEndian(99), <<0, 0, 0, 0, 0, 0, 0, 0>>, 16,
                 LittleEndian(0), <<>>),
      MakeMemory(2^20, LittleEndian(4), AllOnes \o <<0, 0, 0, 0>>, 16,
                 LittleEndian(2), Hi),
      MakeMemory(2^20, LittleEndian(4), LittleEndian(16) \o <<0, 0, 0, 0>>, 16,
                 AllOnes, Hi) }

-----------------------------------------------------------------------------
(* stringifySourcerorRuntimeErrorCode, lines 121-146                       *)

\* Variant of stringifySourcerorRuntimeErrorCode without the case 0x17.
stringifyWithoutCase17(code) ==
    CASE code = 0 -> <<"General runtime error", "">>
      [] code = 1 ->
           <<"Out of memory",
             "Strings and objects are allocated on the heap.  You have exhausted the available heap space.  Try recompiling your program with increased heap space.">>
      [] code = 16 -> <<"General runtime type error", "">>
      [] code = 18 -> <<"Unary operator called with incorrect parameter type", "">>
      [] code = 19 -> <<"Binary operator called with incorrect parameter type", "">>
      [] code = 22 -> <<"Function call operator applied on a non-function", "">>
      [] OTHER ->
           <<"Unknown runtime error",
             "This is probably a bug in Sourceror; please report it.">>

stringifySourcerorRuntimeErrorCode(code) ==
    CASE code = 0 -> <<"General runtime error", "">>
      [] code = 1 ->
           <<"Out of memory",
             "Strings and objects are allocated on the heap.  You have exhausted the available heap space.  Try recompiling your program with increased heap space.">>
      [] code = 16 -> <<"General runtime type error", "">>
      [] code = 18 -> <<"Unary operator called with incorrect parameter type", "">>
      [] code = 19 -> <<"Binary operator called with incorrect parameter type", "">>
      [] code = 22 -> <<"Function call operator applied on a non-function", "">>
      [] code = 23 -> <<"If statement has a non-boolean condition", "">>
      [] OTHER ->
           <<"Unknown runtime error",
             "This is probably a bug in Sourceror; please report it.">>

\* lines 121-146: one call of stringifySourcerorRuntimeErrorCode(code).
StringifyCall(p) ==
    /\ pc[p] = "lookup"
    /\ lookup' = [lookup EXCEPT ![p] =
                    [code |-> @.code,
                     explain |-> stringifySourcerorRuntimeErrorCode(@.code)[1],
                     elaborate |-> stringifySourcerorRuntimeErrorCode(@.code)[2]]]
    /\ pc' = [pc EXCEPT ![p] = "looked"]
    /\ UNCHANGED <<returned, previous, errors, chain, active, compileVars, runVars>>

-----------------------------------------------------------------------------
(* run, lines 148-216                                                      *)

\* Fault codes the module passes to the fault import in the model.
FaultCodes == {1, 18, 2}

\* line 149
propagationToken == Val("Token", "propagationToken")

RuntimeError(message) == Val("RuntimeError", message)

\* lines 164-181: the diagnostic the fault import pushes
FaultDiagnostic(code, line, column) ==
    LET pair == stringifySourcerorRuntimeErrorCode(code)
    IN  Diagnostic("Runtime", "Error", line, column, line, column + 1,
                   pair[1], pair[2])

\* Variant of FaultUnwinds: the fault import returns to the module.
FaultReturns == FALSE

\* line 182: the fault import leaves by throwing, it never returns to the module
FaultUnwinds == TRUE

\* line 192
IsToken(e) == e = propagationToken

\* lines 192-213: what the catch block pushes for the value e it caught
CatchDiagnostics(e) ==
    IF IsToken(e) THEN <<>>
    ELSE <<Diagnostic("Runtime", "Error", 0, 0, 0, 0, e.message, e.message)>>

\* Variant of CatchSettlement that wraps every failure in a RuntimeError.
CatchWraps(e) == Rejected(RuntimeError("runtime error"))

\* lines 192-213: what the catch block settles run with
CatchSettlement(e) ==
    IF IsToken(e) THEN Rejected(RuntimeError("runtime error")) ELSE Rejected(e)

\* line 155: the caller passes the value compile was fulfilled with to run,
\* which calls WebAssembly.instantiate.
RunBegin(p) ==
    /\ pc[p] = "settled" /\ active = None
    /\ result[p].state = "fulfilled"
    /\ ran' = [ran EXCEPT ![p] = errors[p]]
    /\ pc' = [pc EXCEPT ![p] = "instantiating"]
    /\ UNCHANGED <<returned, previous, lookup, errors, chain, active, compileVars, outcome, thrown,
                   linear_memory, steps, faults, decoded>>

\* line 155: WebAssembly.instantiate settles: with an instance; with a
\* failure of the host (always so when the value is no module); or with what
\* the fault import threw when the module's start function called it.
InstantiateSettles(p) ==
    /\ pc[p] = "instantiating" /\ active = None
    /\ \/ /\ result[p].value.kind = "Module"
          /\ chain' = [chain EXCEPT ![p] = Fulfilled(Val("Instance", ""))]
          /\ UNCHANGED <<errors, faults>>
       \/ /\ chain' = [chain EXCEPT ![p] =
                         Rejected(Val("Failure", "LinkError: instantiation failed"))]
          /\ UNCHANGED <<errors, faults>>
       \/ /\ result[p].value.kind = "Module"
          /\ \E code \in FaultCodes, pos \in Positions :
               /\ errors' = [errors EXCEPT ![p] =
                              Push(@, <<FaultDiagnostic(code, pos[1], pos[2])>>)]
               /\ faults' = [faults EXCEPT ![p] =
                              Append(@, <<"start", code, pos[1], pos[2]>>)]
          /\ chain' = [chain EXCEPT ![p] =
                         IF FaultUnwinds THEN Rejected(propagationToken)
                         ELSE Fulfilled(Val("Instance", ""))]
    /\ pc' = [pc EXCEPT ![p] = "instantiated"]
    /\ UNCHANGED <<returned, previous, lookup, active, compileVars, outcome, thrown, linear_memory, steps,
                   decoded, ran>>

\* lines 185-187: the reaction on the instance enters the try block and
\* calls main; a rejection of instantiate passes through (the .then has no
\* rejection handler).
OnInstance(p) ==
    /\ pc[p] = "instantiated" /\ active = None
    /\ IF chain[p].state = "fulfilled"
         THEN /\ pc' = [pc EXCEPT ![p] = "main"]
              /\ active' = p
              /\ UNCHANGED outcome
         ELSE /\ outcome' = [outcome EXCEPT ![p] = Rejected(chain[p].value)]
              /\ pc' = [pc EXCEPT ![p] = "done"]
              /\ UNCHANGED active
    /\ UNCHANGED <<returned, previous, lookup, errors, chain, compileVars, thrown, linear_memory, steps,
                   faults, decoded, ran>>

\* line 187: the entry point executes one more statement.
MainStep(p) ==
    /\ pc[p] = "main" /\ active = p
    /\ steps[p] < MaxSteps
    /\ steps' = [steps EXCEPT ![p] = @ + 1]
    /\ UNCHANGED <<returned, previous, lookup, pc, errors, chain, active, compileVars, outcome, thrown,
                   linear_memory, faults, decoded, ran>>

\* lines 157-183: the entry point calls the fault import.
MainFault(p) ==
    /\ pc[p] = "main" /\ active = p
    /\ Len(faults[p]) < MaxFaults
    /\ \E code \in FaultCodes, pos \in Positions :
         /\ errors' = [errors EXCEPT ![p] =
                        Push(@, <<FaultDiagnostic(code, pos[1], pos[2])>>)]
         /\ faults' = [faults EXCEPT ![p] =
                        Append(@, <<"main", code, pos[1], pos[2]>>)]
    /\ IF FaultUnwinds
         THEN /\ thrown' = [thrown EXCEPT ![p] = propagationToken]
              /\ pc' = [pc EXCEPT ![p] = "caught"]
         ELSE UNCHANGED <<thrown, pc>>
    /\ UNCHANGED <<returned, previous, lookup, chain, active, compileVars, outcome, linear_memory, steps,
                   decoded, ran>>

\* line 187: the entry point fails for another reason (a trap of the engine,
\* or main is no function).
MainTraps(p) ==
    /\ pc[p] = "main" /\ active = p
    /\ thrown' = [thrown EXCEPT ![p] = Val("Failure", "RuntimeError: unreachable")]
    /\ pc' = [pc EXCEPT ![p] = "caught"]
    /\ UNCHANGED <<returned, previous, lookup, errors, chain, active, compileVars, outcome, linear_memory,
                   steps, faults, decoded, ran>>

\* line 187: the entry point returns, leaving its result in linear memory.
MainReturns(p) ==
    /\ pc[p] = "main" /\ active = p
    /\ \E m \in RunMemories : linear_memory' = [linear_memory EXCEPT ![p] = m]
    /\ pc' = [pc EXCEPT ![p] = "returned"]
    /\ UNCHANGED <<returned, previous, lookup, errors, chain, active, compileVars, outcome, thrown, steps,
                   faults, decoded, ran>>

\* Variant of DecodeSettlement that drops the decoded value (a call without
\* the return).
DecodeSettlementDropped(r) == Fulfilled(JsUndefined)

\* lines 188-190: the reaction returns what read_js_result returned, so run is
\* fulfilled with it.
DecodeSettlement(r) == Fulfilled(r.value)

\* lines 188-190: read_js_result is called on the exported memory; its value
\* is returned, or what it throws is caught by the catch block.
Decode(p) ==
    /\ pc[p] = "returned" /\ active = p
    /\ decoded' = [decoded EXCEPT ![p] = @ + 1]
    /\ LET r == read_js_result(linear_memory[p]) IN
         IF r.ok
           THEN /\ outcome' = [outcome EXCEPT ![p] = DecodeSettlement(r)]
                /\ pc' = [pc EXCEPT ![p] = "done"]
                /\ active' = None
                /\ UNCHANGED thrown
           ELSE /\ thrown' = [thrown EXCEPT ![p] = r.value]
                /\ pc' = [pc EXCEPT ![p] = "caught"]
                /\ UNCHANGED <<outcome, active>>
    /\ linear_memory' = [linear_memory EXCEPT ![p] = MemoryAfterRead(@)]
    /\ UNCHANGED <<returned, previous, lookup, errors, chain, compileVars, steps, faults, ran>>

\* lines 191-214: the catch block.
Catch(p) ==
    /\ pc[p] = "caught" /\ active = p
    /\ errors' = [errors EXCEPT ![p] = Push(@, CatchDiagnostics(thrown[p]))]
    /\ outcome' = [outcome EXCEPT ![p] = CatchSettlement(thrown[p])]
    /\ pc' = [pc EXCEPT ![p] = "done"]
    /\ active' = None
    /\ UNCHANGED <<returned, previous, lookup, chain, compileVars, thrown, linear_memory, steps, faults,
                   decoded, ran>>

-----------------------------------------------------------------------------
(* read_js_result called directly on a memory                              *)

WordOf(bs) == <<bs[4] * 256 + bs[3], bs[2] * 256 + bs[1]>>

Sizes == {PageSize, 2^20, 2^21}

TagWords == {LittleEndian(t) : t \in 0..6} \cup {LittleEndian(99), LittleEndian(256), AllOnes}

PointerWords ==
    {LittleEndian(16), LittleEndian(2^20 - 12), LittleEndian(2^20 - 4),
     LittleEndian(2^20), AllOnes}

LengthWords == {LittleEndian(0), LittleEndian(2), LittleEndian(3), LittleEndian(2^21), AllOnes}

Texts == {<<104, 105>>, <<255, 48>>}

DecodeMemories ==
    { MakeMemory(size, tagWord, ptr \o <<0, 0, 8, 64>>,
                 IF Small(WordOf(ptr)) THEN AsInt(WordOf(ptr)) ELSE 0,
                 lenWord, text) :
        size \in Sizes, tagWord \in TagWords, ptr \in PointerWords,
        lenWord \in LengthWords, text \in Texts }

\* lines 92-119: one call of read_js_result(linear_memory), completing with
\* the value it returns or the failure it throws; the caller may call again.
ReadJsResult(p) ==
    /\ pc[p] \in {"call", "called"}
    /\ decoded[p] < MaxReads
    /\ returned' = [returned EXCEPT ![p] = read_js_result(linear_memory[p])]
    /\ previous' = [previous EXCEPT ![p] = returned[p]]
    /\ linear_memory' = [linear_memory EXCEPT ![p] = MemoryAfterRead(@)]
    /\ decoded' = [decoded EXCEPT ![p] = @ + 1]
    /\ pc' = [pc EXCEPT ![p] = "called"]
    /\ UNCHANGED <<lookup, errors, chain, active, compileVars, outcome, thrown,
                   steps, faults, ran>>

-----------------------------------------------------------------------------

NotLooked == [code |-> 0, explain |-> "", elaborate |-> ""]

NotReturned == [ok |-> FALSE, value |-> Val("None", "")]

Quiet ==
    /\ has_errors = [p \in Procs |-> FALSE]
    /\ wasm_context = [p \in Procs |-> 0]
    /\ chain = [p \in Procs |-> Pending]
    /\ result = [p \in Procs |-> Pending]
    /\ live = {}
    /\ nextHandle = 1
    /\ active = None
    /\ calls = [p \in Procs |-> <<>>]
    /\ cbLog = [p \in Procs |-> <<>>]
    /\ parsed = errors
    /\ budget = [p \in Procs |-> MaxCallbacks]
    /\ outcome = [p \in Procs |-> Pending]
    /\ thrown = [p \in Procs |-> Val("None", "")]
    /\ steps = [p \in Procs |-> 0]
    /\ faults = [p \in Procs |-> <<>>]
    /\ decoded = [p \in Procs |-> 0]
    /\ ran = [p \in Procs |-> <<>>]
    /\ returned = [p \in Procs |-> NotReturned]
    /\ previous = [p \in Procs |-> NotReturned]

Earlier == Diagnostic("Syntax", "Error", 9, 9, 9, 10, "earlier", "")

\* One request: compile and then run on a context whose sink is empty or
\* holds an earlier diagnostic.
Init ==
    /\ pc = [p \in Procs |-> IF p = "a" THEN "idle" ELSE "off"]
    /\ errors \in [Procs -> {<<>>, <<Earlier>>}]
    /\ errors["b"] = <<>>
    /\ linear_memory = [p \in Procs |-> EmptyMemory(2^20)]
    /\ lookup = [p \in Procs |-> NotLooked]
    /\ Quiet

\* A direct call of read_js_result on one of the memories.
InitDecode ==
    /\ pc = [p \in Procs |-> IF p = "a" THEN "call" ELSE "off"]
    /\ errors = [p \in Procs |-> <<>>]
    /\ linear_memory \in [Procs -> DecodeMemories \cup {EmptyMemory(2^20)}]
    /\ linear_memory["b"] = EmptyMemory(2^20)
    /\ lookup = [p \in Procs |-> NotLooked]
    /\ Quiet

\* A direct call of the fault-code lookup with a signed 32-bit code.
InitLookup ==
    /\ pc = [p \in Procs |-> IF p = "a" THEN "lookup" ELSE "off"]
    /\ errors = [p \in Procs |-> <<>>]
    /\ linear_memory = [p \in Procs |-> EmptyMemory(2^20)]
    /\ \E code \in (-MaxCode) .. MaxCode :
         lookup = [p \in Procs |->
                     IF p = "a" THEN [NotLooked EXCEPT !.code = code] ELSE NotLooked]
    /\ Quiet

\* Two compile invocations, both about to start, each on its own empty sink.
InitPair ==
    /\ pc = [p \in Procs |-> "idle"]
    /\ errors = [p \in Procs |-> <<>>]
    /\ linear_memory = [p \in Procs |-> EmptyMemory(2^20)]
    /\ lookup = [p \in Procs |-> NotLooked]
    /\ has_errors = [p \in Procs |-> FALSE]
    /\ wasm_context = [p \in Procs |-> 0]
    /\ chain = [p \in Procs |-> Pending]
    /\ result = [p \in Procs |-> Pending]
    /\ live = {}
    /\ nextHandle = 1
    /\ active = None
    /\ calls = [p \in Procs |-> <<>>]
    /\ cbLog = [p \in Procs |-> <<>>]
    /\ parsed = errors
    /\ budget = [p \in Procs |-> IF p = "a" THEN PairCallbacks ELSE 1]
    /\ outcome = [p \in Procs |-> Pending]
    /\ thrown = [p \in Procs |-> Val("None", "")]
    /\ steps = [p \in Procs |-> 0]
    /\ faults = [p \in Procs |-> <<>>]
    /\ decoded = [p \in Procs |-> 0]
    /\ ran = [p \in Procs |-> <<>>]
    /\ returned = [p \in Procs |-> NotReturned]
    /\ previous = [p \in Procs |-> NotReturned]

Next ==
    \E p \in Procs :
        \/ ParseFailure(p)
        \/ CompileBegin(p)
        \/ DiagnosticCallback(p)
        \/ SourcerorCompileThrows(p)
        \/ SourcerorCompileReturns(p)
        \/ SourcerorCompileSettles(p)
        \/ OnBytes(p)
        \/ ValidationSettles(p)
        \/ OnValidation(p)
        \/ Finalize(p)
        \/ RunBegin(p)
        \/ InstantiateSettles(p)
        \/ OnInstance(p)
        \/ MainStep(p)
        \/ MainFault(p)
        \/ MainTraps(p)
        \/ MainReturns(p)
        \/ Decode(p)
        \/ Catch(p)

Spec == Init /\ [][Next]_vars

\* The steps of compile, interleaved between the invocations at the awaits.
NextPair ==
    \E p \in Procs :
        \/ ParseFailure(p)
        \/ CompileBegin(p)
        \/ DiagnosticCallback(p)
        \/ SourcerorCompileThrows(p)
        \/ SourcerorCompileReturns(p)
        \/ SourcerorCompileSettles(p)
        \/ OnBytes(p)
        \/ ValidationSettles(p)
        \/ OnValidation(p)
        \/ Finalize(p)

SpecPair == InitPair /\ [][NextPair]_vars

NextDecode == \E p \in Procs : ReadJsResult(p)

SpecDecode == InitDecode /\ [][NextDecode]_vars

NextLookup == \E p \in Procs : StringifyCall(p)

SpecLookup == InitLookup /\ [][NextLookup]_vars

-----------------------------------------------------------------------------
(* Properties                                                              *)

Count(log, name) == Cardinality({i \in 1..Len(log) : log[i][1] = name})

Has(log, name) == \E i \in 1..Len(log) : log[i][1] = name

CompileSettled(p) == result[p].state # "pending"

ErrorCallback(p) == \E i \in 1..Len(cbLog[p]) : cbLog[p][i][1] >= 4

\* C1: when compile has settled as a success, a parse failure, a syntax-error
\* failure or a validation failure, it has called destroy_context as often as
\* create_context (never after a parse failure, once otherwise), so the
\* destroy precedes the settlement and the handle is no longer live.
C1_ContextTeardown ==
    \A p \in Procs :
        (CompileSettled(p) /\ result[p].value.kind \in {"Module", "CompileError"}) =>
            /\ Count(calls[p], "destroy_context") = Count(calls[p], "create_context")
            /\ Count(calls[p], "create_context") =
                 (IF Has(calls[p], "parse:none") THEN 0 ELSE 1)
            /\ wasm_context[p] \notin live

C1_Witness ==
    \E p \in Procs :
        /\ CompileSettled(p)
        /\ result[p].value = CompileError("WebAssembly compilation error")
        /\ Count(calls[p], "create_context") = 1
        /\ Count(calls[p], "destroy_context") = 1

\* C2: when the callback was invoked with a severity code >= 4 and the
\* compile operation produced bytes, compile's promise is rejected with the
\* syntax-error CompileError.
C2_ErrorDiagnosticFailsCompile ==
    \A p \in Procs :
        (CompileSettled(p) /\ ErrorCallback(p) /\ Has(calls[p], "compile:bytes")) =>
            result[p] = Rejected(CompileError("Syntax error"))

\* C3: when the compile operation produced bytes, no callback invocation had
\* a severity code >= 4 and validation yielded a module, compile is fulfilled
\* with that module and every diagnostic compile appended is a Warning.
C3_CleanCompileSucceeds ==
    \A p \in Procs :
        (/\ pc[p] = "settled"
         /\ Has(calls[p], "compile:bytes")
         /\ ~ErrorCallback(p)
         /\ Has(calls[p], "validate:module")) =>
            /\ result[p] = Fulfilled(Val("Module", ""))
            /\ \A i \in (Len(parsed[p]) + 1) .. Len(errors[p]) :
                 errors[p][i].severity = "Warning"

C3_Witness ==
    \E p \in Procs :
        /\ pc[p] = "settled"
        /\ Has(calls[p], "validate:module")
        /\ Len(cbLog[p]) >= 1
        /\ result[p].value.kind = "Module"
        /\ Len(errors[p]) > Len(parsed[p])

\* C4: when the parser yields no tree, compile is rejected with a
\* CompileError in that same step, makes no call to the compiler or to
\* validation, and the sink stays as the parser left it.
C4_ParseFailure ==
    \A p \in Procs :
        Has(calls[p], "parse:none") =>
            /\ result[p] = Rejected(CompileError("js-slang cannot parse the program"))
            /\ calls[p] = << <<"parse:none", 0>> >>
            /\ errors[p] = parsed[p]

C4_Witness ==
    \E p \in Procs :
        /\ Has(calls[p], "parse:none")
        /\ pc[p] = "settled"
        /\ result[p].state = "rejected"
        /\ Len(parsed[p]) = 2

\* C5: when validation of the bytes fails, exactly one diagnostic, of kind
\* Syntax, severity Error and location (0,0)-(0,0), is appended after the
\* callback's diagnostics, and compile's promise is rejected with a
\* CompileError.
C5_ValidationFailure ==
    \A p \in Procs :
        (pc[p] = "settled" /\ Has(calls[p], "validate:failed")) =>
            /\ Len(errors[p]) = Len(parsed[p]) + Len(cbLog[p]) + 1
            /\ errors[p][Len(errors[p])].type = "Syntax"
            /\ errors[p][Len(errors[p])].severity = "Error"
            /\ errors[p][Len(errors[p])].start = <<0, 0>>
            /\ errors[p][Len(errors[p])].end = <<0, 0>>
            /\ result[p].state = "rejected"
            /\ result[p].value.kind = "CompileError"

MainFaulted(p) == \E i \in 1..Len(faults[p]) : faults[p][i][1] = "main"

\* C6: once the entry point has called the fault import, control is never
\* again in the entry point or the decoder, the sink holds exactly one more
\* entry than when run was called (Runtime, Error, (line,column)-(line,column+1),
\* the texts looked up from the code), and run settles rejected with a
\* RuntimeError.
C6_FaultAbortsRun ==
    \A p \in Procs :
        MainFaulted(p) =>
            LET f == faults[p][1]
                d == errors[p][Len(errors[p])]
            IN  /\ pc[p] \in {"caught", "done"}
                /\ decoded[p] = 0
                /\ Len(faults[p]) = 1
                /\ Len(errors[p]) = Len(ran[p]) + 1
                /\ SubSeq(errors[p], 1, Len(ran[p])) = ran[p]
                /\ d.type = "Runtime" /\ d.severity = "Error"
                /\ d.start = <<f[3], f[4]>> /\ d.end = <<f[3], f[4] + 1>>
                /\ <<d.explain, d.elaborate>> = stringifySourcerorRuntimeErrorCode(f[2])
                /\ (f[2] = 1 => d.explain = "Out of memory")
                /\ (pc[p] = "done" => outcome[p] = Rejected(RuntimeError("runtime error")))

C6_Witness ==
    \E p \in Procs :
        /\ MainFaulted(p)
        /\ pc[p] = "done"
        /\ steps[p] >= 1
        /\ faults[p][1][2] = 1
        /\ outcome[p].value.kind = "RuntimeError"

\* C7: when the try block of run unwinds with a value other than the
\* sentinel, exactly one diagnostic (Runtime, Error, (0,0)-(0,0)) is appended
\* and run is rejected with that very value.
C7_UnexpectedFailureRethrown ==
    \A p \in Procs :
        (pc[p] = "done" /\ thrown[p].kind # "None" /\ thrown[p] # propagationToken) =>
            LET d == errors[p][Len(errors[p])]
            IN  /\ outcome[p] = Rejected(thrown[p])
                /\ Len(errors[p]) = Len(ran[p]) + 1
                /\ SubSeq(errors[p], 1, Len(ran[p])) = ran[p]
                /\ d.type = "Runtime" /\ d.severity = "Error"
                /\ d.start = <<0, 0>> /\ d.end = <<0, 0>>

C7_Witness ==
    \E p \in Procs :
        /\ pc[p] = "done"
        /\ thrown[p] = Val("Failure", "RuntimeError: unreachable")
        /\ outcome[p].state = "rejected"
        /\ steps[p] >= 1

\* C8: whenever run of a compiled module has settled rejected, the sink holds
\* a Runtime/Error diagnostic appended during that run.
C8_RunFailureHasDiagnostic ==
    \A p \in Procs :
        (pc[p] = "done" /\ outcome[p].state = "rejected"
         /\ result[p].value.kind = "Module") =>
            \E i \in (Len(ran[p]) + 1) .. Len(errors[p]) :
                errors[p][i].type = "Runtime" /\ errors[p][i].severity = "Error"

\* C9: at every moment of compile, and so when it settles, the sink holds
\* after the parser's entries one entry for each callback invocation made so
\* far, in invocation order, carrying that invocation's arguments.
C9_CallbackDiagnosticsBeforeOutcome ==
    \A p \in Procs :
        /\ Len(errors[p]) >= Len(parsed[p]) + Len(cbLog[p])
        /\ \A i \in 1..Len(cbLog[p]) :
             LET d == errors[p][Len(parsed[p]) + i]
                 c == cbLog[p][i]
             IN  /\ d.type = "Syntax"
                 /\ d.severity = (IF c[1] >= 4 THEN "Error" ELSE "Warning")
                 /\ d.explain = c[2]
                 /\ d.start = <<c[3], c[4]>>
                 /\ d.end = <<c[3], c[4] + 1>>

C9_Witness ==
    \E p \in Procs :
        /\ pc[p] = "settled"
        /\ Len(cbLog[p]) = 2
        /\ cbLog[p][1][1] < 4
        /\ cbLog[p][2][1] >= 4
        /\ cbLog[p][1][3] # cbLog[p][2][3]

StringInBuffer(m) ==
    /\ AtMost(GetUint32(m, DataOffset), 4, m.size)
    /\ AtMost(GetUint32(m, AsInt(GetUint32(m, DataOffset))),
              AsInt(GetUint32(m, DataOffset)) + 4, m.size)

\* C10 as stated: on a memory of at least 1<<20 bytes, read_js_result
\* returns a value whatever the tag, the pointer and the length are.
C10_DecodeNeverFails ==
    \A p \in Procs :
        (pc[p] = "called" /\ linear_memory[p].size >= 2^20) => returned[p].ok

\* C10 as amended: on a memory of at least 1<<20 bytes, read_js_result
\* returns a value for every tag other than 4, the invalid-tag marker with
\* the decimal tag for a tag outside 0..5; for tag 4 it returns exactly when
\* p + 4 and p + 4 + length are at most the byte length of the buffer, and
\* otherwise throws a RangeError.
C10_DecodeFailsOnlyOutOfBounds ==
    \A p \in Procs :
        (pc[p] = "called" /\ linear_memory[p].size >= 2^20) =>
            LET m == linear_memory[p]
                tag == GetUint32(m, TagOffset)
                r == returned[p]
            IN  /\ tag # <<0, 4>> => r.ok
                /\ tag = <<0, 4>> => (r.ok <=> StringInBuffer(m))
                /\ (tag[1] # 0 \/ tag[2] > 5) =>
                     /\ r.ok /\ r.value.t = "string"
                     /\ (tag = <<0, 99>> =>
                           r.value.text = "(struct or invalid type (99) was returned)")
                     /\ (tag = <<65535, 65535>> =>
                           r.value.text = "(struct or invalid type (4294967295) was returned)")
                /\ ~r.ok => r.value.kind = "Failure"

C10_Witness ==
    \E p \in Procs :
        /\ pc[p] = "called"
        /\ linear_memory[p].size = 2^20
        /\ GetUint32(linear_memory[p], TagOffset) = <<0, 4>>
        /\ GetUint32(linear_memory[p], DataOffset) = <<65535, 65535>>
        /\ ~returned[p].ok

\* C11: whenever read_js_result returns, on a memory of at least 1<<20 bytes,
\* the tag is the little-endian word at (1<<20)-12, the data start at
\* (1<<20)-8, and the value is fixed by the tag: 0 the unassigned marker,
\* 1 undefined, 2 the double of the 8 data bytes, 3 true iff the data word is
\* nonzero, 4 the text of the `length` bytes at p+4 (p the data word, length
\* the word at p), 5 the function marker.
C11_DecodeByTag ==
    \A p \in Procs :
        (pc[p] = "called" /\ linear_memory[p].size >= 2^20 /\ returned[p].ok) =>
            LET m == linear_memory[p]
                r == returned[p].value
                tagLo == ByteAt(m, 2^20 - 12) + 256 * ByteAt(m, 2^20 - 11)
                tagHi == ByteAt(m, 2^20 - 10) + 256 * ByteAt(m, 2^20 - 9)
                dLo == ByteAt(m, 2^20 - 8) + 256 * ByteAt(m, 2^20 - 7)
                dHi == ByteAt(m, 2^20 - 6) + 256 * ByteAt(m, 2^20 - 5)
                ptr == dHi * 65536 + dLo
                len == (ByteAt(m, ptr + 2) + 256 * ByteAt(m, ptr + 3)) * 65536
                       + ByteAt(m, ptr) + 256 * ByteAt(m, ptr + 1)
            IN  tagHi = 0 =>
                  /\ tagLo = 0 => r = JsString("(unassigned variable was returned)")
                  /\ tagLo = 1 => r = JsUndefined
                  /\ tagLo = 2 =>
                       /\ r.t = "number"
                       /\ \A i \in 1..8 : r.bits[i] = ByteAt(m, 2^20 - i)
                  /\ tagLo = 3 => r = JsBoolean(dLo # 0 \/ dHi # 0)
                  /\ tagLo = 4 =>
                       /\ r.t = "string"
                       /\ r.text = Utf8Decode(m, ptr + 4, len)
                       /\ (len = 2 /\ ByteAt(m, ptr + 4) = 104 /\ ByteAt(m, ptr + 5) = 105)
                            => r.text = "hi"
                       /\ len = 0 => r.text = ""
                  /\ tagLo = 5 => r = JsString("(function was returned)")

C11_Witness ==
    \E p \in Procs :
        /\ pc[p] = "called"
        /\ returned[p].ok
        /\ returned[p].value = JsString("hi")
        /\ ByteAt(linear_memory[p], 2^20 - 12) = 4
        /\ ByteAt(linear_memory[p], 2^20 - 8) = 16

\* C12: a call of read_js_result leaves every byte of the memory and every
\* sink as they were, and a second call on the memory completes exactly as
\* the first did.
C12_DecodeIsPure ==
    /\ [][\A p \in Procs :
            decoded'[p] # decoded[p] =>
                /\ linear_memory'[p] = linear_memory[p]
                /\ errors' = errors]_vars
    /\ [](\A p \in Procs : (pc[p] = "called" /\ decoded[p] >= 2) =>
                               returned[p] = previous[p])

C12_Witness ==
    \E p \in Procs :
        /\ pc[p] = "called"
        /\ decoded[p] = 2
        /\ previous[p].ok
        /\ previous[p].value = JsString("(struct or invalid type (99) was returned)")
        /\ returned[p] = previous[p]

Generic ==
    <<"Unknown runtime error", "This is probably a bug in Sourceror; please report it.">>

\* C13: the lookup answers every code; each of 0x0, 0x1, 0x10, 0x12, 0x13,
\* 0x16, 0x17 has its own pair (0x1: "Out of memory"), different from the
\* generic pair, and every other code has the generic pair.
C13_LookupTotalAndClosed ==
    \A p \in Procs :
        pc[p] = "looked" =>
            LET c == lookup[p].code
                e == lookup[p].explain
                l == lookup[p].elaborate
            IN  /\ c = 0 => e = "General runtime error" /\ l = ""
                /\ c = 1 =>
                     /\ e = "Out of memory"
                     /\ l = "Strings and objects are allocated on the heap.  You have exhausted the available heap space.  Try recompiling your program with increased heap space."
                /\ c = 16 => e = "General runtime type error" /\ l = ""
                /\ c = 18 => e = "Unary operator called with incorrect parameter type" /\ l = ""
                /\ c = 19 => e = "Binary operator called with incorrect parameter type" /\ l = ""
                /\ c = 22 => e = "Function call operator applied on a non-function" /\ l = ""
                /\ c = 23 => e = "If statement has a non-boolean condition" /\ l = ""
                /\ c \in {0, 1, 16, 18, 19, 22, 23} <=> <<e, l>> # Generic

C13_Witness ==
    \E p \in Procs :
        /\ pc[p] = "looked"
        /\ lookup[p].code = 23
        /\ lookup[p].explain = "If statement has a non-boolean condition"

\* C14: when the compile operation fails after the context was created, by
\* rejecting its promise or by raising when called, compile has destroyed the
\* context exactly once when it settles.
C14_TeardownOnCompilerFailure ==
    \A p \in Procs :
        (CompileSettled(p)
         /\ (Has(calls[p], "compile:rejected") \/ Has(calls[p], "compile:threw"))) =>
            /\ Count(calls[p], "destroy_context") = 1
            /\ wasm_context[p] \notin live

\* C15: when the flag has_errors is true as the compiler's bytes arrive,
\* WebAssembly.compile is never called in that invocation.
C15_NoValidationAfterError ==
    \A p \in Procs :
        (Has(calls[p], "compile:bytes") /\ has_errors[p]) =>
            /\ ~Has(calls[p], "validate")
            /\ ~Has(calls[p], "validate:module")
            /\ ~Has(calls[p], "validate:failed")

C15_Witness ==
    \E p \in Procs :
        /\ Has(calls[p], "compile:bytes")
        /\ has_errors[p]
        /\ CompileSettled(p)
        /\ Has(calls[p], "destroy_context")
        /\ Len(cbLog[p]) = 1

\* C16: each invocation of the callback appends exactly one diagnostic, of
\* kind Syntax, at (line,column)-(line,column+1), Error for a severity code
\* >= 4 and Warning otherwise; and at every moment the flag has_errors is true
\* exactly if some invocation so far had a severity code >= 4.
C16_CallbackRecordsAndFlags ==
    /\ [][\A p \in Procs :
            cbLog'[p] # cbLog[p] =>
                LET c == cbLog'[p][Len(cbLog'[p])]
                IN  /\ Len(cbLog'[p]) = Len(cbLog[p]) + 1
                    /\ errors'[p] =
                         Append(errors[p],
                                [type |-> "Syntax",
                                 severity |-> IF c[1] >= 4 THEN "Error" ELSE "Warning",
                                 start |-> <<c[3], c[4]>>,
                                 end |-> <<c[3], c[4] + 1>>,
                                 explain |-> c[2],
                                 elaborate |-> ""])]_vars
    /\ [](\A p \in Procs : has_errors[p] <=> ErrorCallback(p))

C16_Witness ==
    \E p \in Procs :
        /\ Len(cbLog[p]) = 2
        /\ cbLog[p][1][1] >= 4
        /\ cbLog[p][2][1] < 4
        /\ has_errors[p]
        /\ Len(errors[p]) = Len(parsed[p]) + 2

\* C17: in every step of compile and run the sink only grows at its end:
\* what it held before the step is a prefix of what it holds after.
C17_SinkAppendOnly ==
    [][\A p \in Procs :
          /\ Len(errors'[p]) >= Len(errors[p])
          /\ SubSeq(errors'[p], 1, Len(errors[p])) = errors[p]]_vars

C17_Witness ==
    \E p \in Procs :
        /\ pc[p] = "done"
        /\ Len(errors[p]) = 4
        /\ errors[p][1] = Earlier
        /\ errors[p][3].type = "Syntax"
        /\ errors[p][4].type = "Runtime"

\* C18: with two compile invocations interleaved, the handles they created
\* differ, every compile and destroy_context call of an invocation carries the
\* handle that invocation created, its flag is set exactly when its own
\* callback received a severity code >= 4, and what it settles with follows
\* from its own callback invocations only.
C18_ContextNotShared ==
    \A p \in Procs :
        /\ \A i \in 1..Len(calls[p]) :
             calls[p][i][1] \in {"create_context", "compile", "compile:threw",
                                 "destroy_context"} =>
                 /\ calls[p][i][2] = wasm_context[p]
                 /\ wasm_context[p] # 0
        /\ Count(calls[p], "create_context") <= 1
        /\ \A q \in Procs \ {p} :
             (wasm_context[p] # 0 /\ wasm_context[q] # 0) =>
                 wasm_context[p] # wasm_context[q]
        /\ has_errors[p] <=> ErrorCallback(p)
        /\ (pc[p] = "settled" /\ Has(calls[p], "compile:bytes")) =>
             /\ ErrorCallback(p) => result[p].value = CompileError("Syntax error")
             /\ (~ErrorCallback(p) /\ Has(calls[p], "validate:module")) =>
                  result[p].value = Val("Module", "")

C18_Witness ==
    \E p \in Procs : \E q \in Procs \ {p} :
        /\ pc[p] = "settled" /\ pc[q] = "settled"
        /\ ErrorCallback(p)
        /\ cbLog[p][1][1] >= 4
        /\ result[p].value = CompileError("Syntax error")
        /\ ~ErrorCallback(q)
        /\ result[q].value = Val("Module", "")
        /\ Count(calls[p], "destroy_context") = 1
        /\ Count(calls[q], "destroy_context") = 1
        /\ wasm_context[q] < wasm_context[p]

\* C19: whenever run has settled rejected, the value it is rejected with is
\* not the sentinel thrown by the fault import.
C19_SentinelNeverEscapes ==
    \A p \in Procs :
        (pc[p] = "done" /\ outcome[p].state = "rejected") =>
            ~IsToken(outcome[p].value)

\* C20: the decoder is not called before the entry point has returned and is
\* called at most once in a run; when it was called and succeeded, run is
\* fulfilled with the value it decoded from the exported memory, no fault was
\* raised, and the sink is as it was when run was called.
C20_NormalReturnDecodesOnce ==
    \A p \in Procs :
        /\ decoded[p] <= 1
        /\ pc[p] \in {"instantiating", "instantiated", "main", "returned"} =>
             decoded[p] = 0
        /\ (pc[p] = "done" /\ decoded[p] = 1 /\ read_js_result(linear_memory[p]).ok) =>
             /\ outcome[p] = Fulfilled(read_js_result(linear_memory[p]).value)
             /\ errors[p] = ran[p]
             /\ faults[p] = <<>>

C20_Witness ==
    \E p \in Procs :
        /\ pc[p] = "done"
        /\ decoded[p] = 1
        /\ steps[p] >= 1
        /\ outcome[p] = Fulfilled(JsString("hi"))
        /\ Len(errors[p]) >= 1
        /\ errors[p] = ran[p]

====
